---- MODULE Spec2Model ----
(***************************************************************************)
(* GPX-Analyzer: the segmentation loop of process_gpx (src/gpx.py), the    *)
(* record construction of __process_segment, and the two command line      *)
(* entry points (src/main.py, src/gpx_analyzer.py).                        *)
(*                                                                         *)
(* Units.  The code computes in floats; the model computes in fixed point: *)
(*   distances        thousandths of a kilometre (metres)                  *)
(*   elevations       thousandths of a metre                               *)
(*   grades           thousandths of a percent                             *)
(*   timestamps       seconds                                              *)
(*   rounded fields   hundredths (round(x, 2) of the code)                 *)
(* Points lie on one meridian, so the great-circle distance between two    *)
(* of them is the difference of their latitudes, counted in metres of arc. *)
(***************************************************************************)
EXTENDS Integers, Sequences, FiniteSets, TLC

\* ------------------------------------------------------------------ bounds
MaxPoints == 3        \* points in the whole GPX file
MaxRawSegments == 2   \* raw track segments (over all tracks) in the file

\* ------------------------------------------------------------ input values
Hops == {4, 8}              \* arc between two consecutive raw points
Elevations == {0, 4, 12}    \* 0 is the "no elevation" value of the code
SegmentLengths == {0, 4, 8} \* -l/--segment-length
PromptLengths == {8}        \* the segment lengths explored together with -aip
TimeStep == 1830            \* sampling interval of a timed recording
Sources == {"ok", "missing", "corrupt"}
Entries == {"main", "gpx_analyzer"}
Hosts == {"", "www.strava.com", "example.com"}

NoValue == -1               \* Python None for a number
NoneStr == "None"           \* Python None for a string
NoPoint == [latitude |-> NoValue, longitude |-> NoValue, elevation |-> NoValue, time |-> NoValue]

\* ----------------------------------------------------------------- helpers
Abs(x) == IF x < 0 THEN -x ELSE x

Last(s) == s[Len(s)]

RECURSIVE SumSeq(_)
SumSeq(s) == IF s = <<>> THEN 0 ELSE s[1] + SumSeq(Tail(s))

SeqMax(s) == CHOOSE x \in {s[i] : i \in DOMAIN s} : \A j \in DOMAIN s : s[j] <= x
SeqMin(s) == CHOOSE x \in {s[i] : i \in DOMAIN s} : \A j \in DOMAIN s : x <= s[j]

\* n/m rounded to the nearest integer, ties to the even neighbour (m > 0)
RoundHalfEven(n, m) ==
  LET q == n \div m
      r == n % m
  IN  IF 2 * r < m THEN q
      ELSE IF 2 * r > m THEN q + 1
      ELSE IF q % 2 = 0 THEN q ELSE q + 1

\* round(x, 2) on a value held in thousandths: the result is in hundredths
Round2_Truncate(x) == x \div 10

Round2(x) == RoundHalfEven(x, 10)

\* src/utils.py
haversine(lat1, lon1, lat2, lon2) ==
  IF lon1 = lon2 THEN Abs(lat2 - lat1) ELSE NoValue

\* the gradient as a ratio, not multiplied by 100
calculate_gradient_Ratio(distance, elevation_diff) ==
  IF distance = 0 THEN 0 ELSE elevation_diff \div distance

calculate_gradient(distance, elevation_diff) ==
  IF distance = 0 THEN 0 ELSE (elevation_diff * 100) \div distance

calculate_point_geo_data(point, previous_point) ==
  LET point_distance == haversine(previous_point.latitude, previous_point.longitude,
                                  point.latitude, point.longitude)
      elevation_diff == point.elevation - previous_point.elevation
      gradient == calculate_gradient(point_distance, elevation_diff)
  IN  <<point_distance, elevation_diff, gradient>>

\* src/gpx.py
update_elevation_data_Signed(elevation_gain, elevation_loss, distance_diff) ==
  IF distance_diff > 0 THEN <<elevation_gain + distance_diff, elevation_loss>>
  ELSE IF distance_diff < 0 THEN <<elevation_gain, elevation_loss + distance_diff>>
  ELSE <<elevation_gain, elevation_loss>>

update_elevation_data(elevation_gain, elevation_loss, distance_diff) ==
  IF distance_diff > 0 THEN <<elevation_gain + distance_diff, elevation_loss>>
  ELSE IF distance_diff < 0 THEN <<elevation_gain, elevation_loss + Abs(distance_diff)>>
  ELSE <<elevation_gain, elevation_loss>>

\* avg_grade is a quotient: it is kept as numerator and denominator
calculate_segment_statistics(segment_points, segment_grades) ==
  LET elevations == [i \in DOMAIN segment_points |-> segment_points[i].point.elevation]
  IN  [min_elevation |-> SeqMin(elevations),
       max_elevation |-> SeqMax(elevations),
       avg_grade |-> IF segment_grades # <<>>
                     THEN <<SumSeq(segment_grades), Len(segment_grades)>> ELSE <<0, 1>>,
       max_grade |-> IF segment_grades # <<>> THEN SeqMax(segment_grades) ELSE 0,
       min_grade |-> IF segment_grades # <<>> THEN SeqMin(segment_grades) ELSE 0]

\* the test of the "if" that closes a segment
SegmentComplete_Precedence(segment_distance, segment_length, point_idx, npoints, buffered) ==
  /\ \/ segment_distance >= segment_length
     \/ point_idx = npoints - 1
  /\ buffered >= 2

SegmentComplete_Strict(segment_distance, segment_length, point_idx, npoints, buffered) ==
  \/ segment_distance > segment_length
  \/ /\ point_idx = npoints - 1
     /\ buffered >= 2

SegmentComplete_AnyBuffer(segment_distance, segment_length, point_idx, npoints, buffered) ==
  \/ segment_distance >= segment_length
  \/ /\ point_idx = npoints - 1
     /\ buffered >= 1

SegmentComplete(segment_distance, segment_length, point_idx, npoints, buffered) ==
  \/ segment_distance >= segment_length
  \/ /\ point_idx = npoints - 1
     /\ buffered >= 2

\* the test of the "continue" that skips a point
SkipPoint(point, previous_duration) ==
  point.elevation = 0 /\ previous_duration = NoValue


\* text: a string is a sequence of one-character strings
DigitChar(d) == <<"0", "1", "2", "3", "4", "5", "6", "7", "8", "9">>[d + 1]

RECURSIVE Decimal(_)
Decimal(n) == IF n < 10 THEN <<DigitChar(n)>> ELSE Decimal(n \div 10) \o <<DigitChar(n % 10)>>

\* the format specification d: sign and digits, no padding
Format02d_NoPadding(n) == IF n < 0 THEN <<"-">> \o Decimal(-n) ELSE Decimal(n)

\* the format specification 02d: sign, digits, zero padded to a width of 2
Format02d(n) ==
  LET text == IF n < 0 THEN <<"-">> \o Decimal(-n) ELSE Decimal(n)
  IN  IF Len(text) < 2 THEN <<"0">> \o text ELSE text

EmptyText == <<>>           \* the empty string '' (and None, where a text is optional)

\* datetime.isoformat(): a rendering of the timestamp that keeps it apart from
\* every other timestamp
isoformat(time) == <<"T">> \o Decimal(time)

calculate_segment_duration(start_point, end_point) ==
  IF start_point.time # NoValue /\ end_point.time # NoValue
  THEN LET duration_seconds == end_point.time - start_point.time
           hours == duration_seconds \div 3600
           remainder == duration_seconds % 3600
           minutes == remainder \div 60
           seconds == remainder % 60
       IN  Format02d(hours) \o <<":">> \o Format02d(minutes) \o <<":">> \o Format02d(seconds)
  ELSE EmptyText

\* description is what generate_segment_description returned (NoneStr without a prompt)
process_segment_EndIsStart(segment, description) ==
  [number |-> segment.number,
   start_elevation |-> Round2(segment.start_point.elevation),
   end_elevation |-> Round2(segment.end_point.elevation),
   min_elevation |-> Round2(segment.min_elevation),
   max_elevation |-> Round2(segment.max_elevation),
   distance |-> Round2(segment.distance),
   start_distance |-> Round2(segment.start_distance),
   end_distance |-> Round2(segment.start_distance),
   elevation_gain |-> Round2(segment.elevation_gain),
   elevation_loss |-> Round2(segment.elevation_loss),
   avg_grade |-> RoundHalfEven(segment.avg_grade[1], segment.avg_grade[2] * 10),
   max_grade |-> Round2(segment.max_grade),
   min_grade |-> Round2(segment.min_grade),
   start_time |-> IF segment.start_point.time # NoValue
                  THEN isoformat(segment.start_point.time) ELSE EmptyText,
   end_time |-> IF segment.end_point.time # NoValue
                THEN isoformat(segment.end_point.time) ELSE EmptyText,
   duration |-> calculate_segment_duration(segment.start_point, segment.end_point),
   description |-> description]

process_segment(segment, description) ==
  [number |-> segment.number,
   start_elevation |-> Round2(segment.start_point.elevation),
   end_elevation |-> Round2(segment.end_point.elevation),
   min_elevation |-> Round2(segment.min_elevation),
   max_elevation |-> Round2(segment.max_elevation),
   distance |-> Round2(segment.distance),
   start_distance |-> Round2(segment.start_distance),
   end_distance |-> Round2(segment.start_distance + segment.distance),
   elevation_gain |-> Round2(segment.elevation_gain),
   elevation_loss |-> Round2(segment.elevation_loss),
   avg_grade |-> RoundHalfEven(segment.avg_grade[1], segment.avg_grade[2] * 10),
   max_grade |-> Round2(segment.max_grade),
   min_grade |-> Round2(segment.min_grade),
   start_time |-> IF segment.start_point.time # NoValue
                  THEN isoformat(segment.start_point.time) ELSE EmptyText,
   end_time |-> IF segment.end_point.time # NoValue
                THEN isoformat(segment.end_point.time) ELSE EmptyText,
   duration |-> calculate_segment_duration(segment.start_point, segment.end_point),
   description |-> description]

\* an except clause that returns nothing
generate_segment_description_NoPlaceholder(request_ok) ==
  IF request_ok THEN "text" ELSE NoneStr

\* src/ai.py: the text of the reply, or "-" when the request raised
generate_segment_description(request_ok) == IF request_ok THEN "text" ELSE "-"

\* ------------------------------------------------------------------- state
VARIABLES
  entry,                   \* the command line program that runs
  source,                  \* what the GPX source is: readable and well formed, missing, corrupt
  segment_length,          \* -l
  ai_prompt,               \* TRUE when -aip gives a prompt
  pc,                      \* position in the program
  raw_idx,                 \* raw track segments started so far (track_idx, segment_idx)
  timed,                   \* the current raw track segment carries <time> elements
  npoints,                 \* len(segment.points)
  points,                  \* segment.points[0 .. point_idx], the points read so far
  read_points,             \* points read from the file so far
  point_idx,
  point,
  cumulative_distance,
  segment_start_distance,
  segment_distance,
  segment_points,
  segment_grades,
  segment_elevation_gain,
  segment_elevation_loss,
  segment_number,
  previous_point,
  previous_duration,
  segments,                \* the dicts appended by the loop
  closed,                  \* for each dict: where and how the segment was closed
  result,                  \* the GPXSegment records built by the return statement
  raised,                  \* an exception left process_gpx
  stdout,
  stderr,
  exit_code,
  csv_columns,
  csv_rows,
  uri_host,                \* gpx_analyzer.py: the hostname of the source URI ("" for a path)
  gpx_data,                \* gpx_analyzer.py: what get_gpx_data returned
  provider_used,           \* gpx_analyzer.py: the provider get_gpx_data retrieved with
  routes,                  \* gpx_analyzer.py: the number of routes get_routes returned
  api_key,                 \* provider.py: GOOGLE_ELEVATION_API_KEY is set
  providers,               \* provider.py: __POINT_ELEVATION_PROVIDERS
  elevation_pc,            \* provider.py: position in get_locations_elevations
  calls,                   \* provider.py: calls of get_locations_elevations so far
  locations,               \* provider.py: the argument of the call
  provider_idx,            \* provider.py: the provider the for loop is at
  elevations,              \* provider.py: the local variable that is returned
  attempts,                \* provider.py: the providers tried in this call, with outcomes
  start_time,              \* __calculate_segment_duration: start_point.time
  end_time,                \* __calculate_segment_duration: end_point.time
  duration,                \* __calculate_segment_duration: the value returned
  duration_pc,
  gradient_distance,       \* calculate_gradient: the argument distance
  gradient_elevation_diff, \* calculate_gradient: the argument elevation_diff
  gradient,                \* calculate_gradient: the value returned
  gradient_pc,
  google_locations,        \* GoogleElevationProvider.get_points_elevations: the argument
  locations_per_request,   \* the batches __get_locations_per_requests returned
  request_idx,             \* the batch the for loop is at
  responses,               \* for each request issued so far: it succeeded
  location_results,
  exception,
  google_returned,         \* what the call raised or returned
  google_pc

loopVars == <<raw_idx, timed, npoints, points, read_points, point_idx, point,
              cumulative_distance, segment_start_distance, segment_distance,
              segment_points, segment_grades, segment_elevation_gain,
              segment_elevation_loss, segment_number, previous_point,
              previous_duration, segments, closed>>
inputVars == <<entry, source, segment_length, ai_prompt>>
outVars == <<stdout, stderr, exit_code, csv_columns, csv_rows>>
analyzerVars == <<uri_host, gpx_data, provider_used, routes>>
programVars == <<inputVars, pc, loopVars, result, raised, outVars, analyzerVars>>
elevationVars == <<api_key, providers, elevation_pc, calls, locations, provider_idx,
                   elevations, attempts>>
durationVars == <<start_time, end_time, duration, duration_pc>>
gradientVars == <<gradient_distance, gradient_elevation_diff, gradient, gradient_pc>>
googleVars == <<google_locations, locations_per_request, request_idx, responses,
                location_results, exception, google_returned, google_pc>>
libraryVars == <<elevationVars, durationVars, gradientVars, googleVars>>
vars == <<programVars, libraryVars>>

\* the program before main() runs
InitProgram ==
  /\ entry \in Entries
  /\ source \in Sources
  /\ segment_length \in SegmentLengths
  /\ ai_prompt \in (IF entry = "main" /\ segment_length \in PromptLengths
                    THEN BOOLEAN ELSE {FALSE})
  /\ pc = "main"
  /\ raw_idx = 0
  /\ timed = FALSE
  /\ npoints = 0
  /\ points = <<>>
  /\ read_points = 0
  /\ point_idx = 0
  /\ point = NoPoint
  /\ cumulative_distance = 0
  /\ segment_start_distance = 0
  /\ segment_distance = 0
  /\ segment_points = <<>>
  /\ segment_grades = <<>>
  /\ segment_elevation_gain = 0
  /\ segment_elevation_loss = 0
  /\ segment_number = 1
  /\ previous_point = NoPoint
  /\ previous_duration = NoValue
  /\ segments = <<>>
  /\ closed = <<>>
  /\ result = <<>>
  /\ raised = FALSE
  /\ stdout = <<>>
  /\ stderr = <<>>
  /\ exit_code = NoValue
  /\ csv_columns = <<>>
  /\ csv_rows = <<>>
  /\ uri_host \in (IF entry = "main" THEN {""} ELSE Hosts)
  /\ gpx_data = NoneStr
  /\ provider_used = NoneStr
  /\ routes = NoValue

\* provider.py as imported: the chain holds OpenElevationProvider, no call is running
InitElevation ==
  /\ api_key = FALSE
  /\ providers = <<"OpenElevationProvider">>
  /\ elevation_pc = "idle"
  /\ calls = 0
  /\ locations = <<>>
  /\ provider_idx = 0
  /\ elevations = <<>>
  /\ attempts = <<>>

\* no call of __calculate_segment_duration is running
InitDuration ==
  /\ start_time = NoValue
  /\ end_time = NoValue
  /\ duration = NoneStr
  /\ duration_pc = "idle"

\* no call of calculate_gradient is running
InitGradient ==
  /\ gradient_distance = 0
  /\ gradient_elevation_diff = 0
  /\ gradient = 0
  /\ gradient_pc = "idle"

\* no call of GoogleElevationProvider.get_points_elevations is running
InitGoogle ==
  /\ google_locations = <<>>
  /\ locations_per_request = <<>>
  /\ request_idx = 0
  /\ responses = <<>>
  /\ location_results = <<>>
  /\ exception = NoneStr
  /\ google_returned = NoneStr
  /\ google_pc = "idle"

Init == InitProgram /\ InitElevation /\ InitDuration /\ InitGradient /\ InitGoogle

\* ------------------------------------------------- process_gpx (src/gpx.py)
\* main.py: main() -> write_on_csv() -> process_gpx()
MainCall ==
  /\ pc = "main" /\ entry = "main"
  /\ pc' = "open"
  /\ UNCHANGED <<libraryVars, inputVars, loopVars, result, raised, outVars, analyzerVars>>

\* open() and gpxpy.parse() succeed
OpenParsed ==
  /\ pc = "open" /\ source = "ok"
  /\ pc' = "tracks"
  /\ UNCHANGED <<libraryVars, inputVars, loopVars, result, raised, outVars, analyzerVars>>

\* open() or gpxpy.parse() raises: the except clause prints and returns []
OpenFailed ==
  /\ pc = "open" /\ source # "ok"
  /\ stdout' = Append(stdout, "Error processing GPX file")
  /\ result' = <<>>
  /\ raised' = FALSE
  /\ pc' = "returned"
  /\ UNCHANGED <<libraryVars, inputVars, loopVars, stderr, exit_code, csv_columns, csv_rows, analyzerVars>>

\* the next raw track segment with segment_number initialised once, before the loops
NextRawSegment_KeepNumber ==
  /\ pc = "tracks" /\ raw_idx < MaxRawSegments
  /\ \E n \in 0 .. (MaxPoints - read_points) :
       \E t \in (IF n = 0 THEN {FALSE} ELSE BOOLEAN) :
         /\ npoints' = n
         /\ timed' = t
  /\ raw_idx' = raw_idx + 1
  /\ points' = <<>>
  /\ point_idx' = 0
  /\ cumulative_distance' = 0
  /\ segment_start_distance' = 0
  /\ segment_distance' = 0
  /\ segment_points' = <<>>
  /\ segment_grades' = <<>>
  /\ segment_elevation_gain' = 0
  /\ segment_elevation_loss' = 0
  /\ segment_number' = segment_number
  /\ previous_point' = NoPoint
  /\ previous_duration' = NoValue
  /\ pc' = "points"
  /\ UNCHANGED <<libraryVars, inputVars, read_points, point, segments, closed, result, raised, outVars, analyzerVars>>

\* the next raw track segment of the file: the per-segment variables are reset
NextRawSegment ==
  /\ pc = "tracks" /\ raw_idx < MaxRawSegments
  /\ \E n \in 0 .. (MaxPoints - read_points) :
       \E t \in (IF n = 0 THEN {FALSE} ELSE BOOLEAN) :
         /\ npoints' = n
         /\ timed' = t
  /\ raw_idx' = raw_idx + 1
  /\ points' = <<>>
  /\ point_idx' = 0
  /\ cumulative_distance' = 0
  /\ segment_start_distance' = 0
  /\ segment_distance' = 0
  /\ segment_points' = <<>>
  /\ segment_grades' = <<>>
  /\ segment_elevation_gain' = 0
  /\ segment_elevation_loss' = 0
  /\ segment_number' = 1
  /\ previous_point' = NoPoint
  /\ previous_duration' = NoValue
  /\ pc' = "points"
  /\ UNCHANGED <<libraryVars, inputVars, read_points, point, segments, closed, result, raised, outVars, analyzerVars>>

\* the point that enumerate() yields next
NextPoint(hop, elevation) ==
  [latitude |-> IF points = <<>> THEN 0 ELSE Last(points).latitude + hop,
   longitude |-> 0,
   elevation |-> elevation,
   time |-> IF timed THEN point_idx * TimeStep ELSE NoValue]

\* a point without elevation before any point was accepted: continue
Skip ==
  /\ pc = "points" /\ point_idx < npoints
  /\ \E hop \in Hops, elevation \in Elevations :
       LET p == NextPoint(hop, elevation)
       IN  /\ SkipPoint(p, previous_duration)
           /\ points' = Append(points, p)
  /\ read_points' = read_points + 1
  /\ point_idx' = point_idx + 1
  /\ UNCHANGED <<libraryVars, inputVars, pc, raw_idx, timed, npoints, point, cumulative_distance,
                 segment_start_distance, segment_distance, segment_points,
                 segment_grades, segment_elevation_gain, segment_elevation_loss,
                 segment_number, previous_point, previous_duration, segments, closed,
                 result, raised, outVars, analyzerVars>>

\* the point is measured against its predecessor and added to the buffer
Accumulate ==
  /\ pc = "points" /\ point_idx < npoints
  /\ \E hop \in Hops, elevation \in Elevations :
       LET p == NextPoint(hop, elevation)
           geo == IF previous_point # NoPoint
                  THEN calculate_point_geo_data(p, previous_point) ELSE <<0, 0, 0>>
           elev == update_elevation_data(segment_elevation_gain,
                                         segment_elevation_loss, geo[2])
       IN  /\ ~SkipPoint(p, previous_duration)
           /\ points' = Append(points, p)
           /\ point' = p
           /\ cumulative_distance' = cumulative_distance + geo[1]
           /\ segment_distance' = segment_distance + geo[1]
           /\ segment_grades' = IF previous_point # NoPoint
                                THEN Append(segment_grades, geo[3]) ELSE segment_grades
           /\ segment_elevation_gain' = IF previous_point # NoPoint
                                        THEN elev[1] ELSE segment_elevation_gain
           /\ segment_elevation_loss' = IF previous_point # NoPoint
                                        THEN elev[2] ELSE segment_elevation_loss
           /\ segment_points' = Append(segment_points,
                                       [point |-> p,
                                        distance |-> geo[1],
                                        cumulative_distance |-> cumulative_distance + geo[1],
                                        gradient |-> geo[3]])
  /\ read_points' = read_points + 1
  /\ pc' = "check"
  /\ UNCHANGED <<libraryVars, inputVars, raw_idx, timed, npoints, point_idx, segment_start_distance,
                 segment_number, previous_point, previous_duration, segments, closed,
                 result, raised, outVars, analyzerVars>>

\* the segment is complete and its record is built, description included, at once
CloseSegment_Describe ==
  /\ pc = "check"
  /\ SegmentComplete(segment_distance, segment_length, point_idx, npoints, Len(segment_points))
  /\ LET stats == calculate_segment_statistics(segment_points, segment_grades)
     IN  segments' = Append(segments,
                            [number |-> segment_number,
                             distance |-> segment_distance,
                             elevation_gain |-> segment_elevation_gain,
                             elevation_loss |-> segment_elevation_loss,
                             avg_grade |-> stats.avg_grade,
                             max_grade |-> stats.max_grade,
                             min_grade |-> stats.min_grade,
                             min_elevation |-> stats.min_elevation,
                             max_elevation |-> stats.max_elevation,
                             start_distance |-> segment_start_distance,
                             start_point |-> segment_points[1].point,
                             end_point |-> Last(segment_points).point])
  /\ closed' = Append(closed, [raw |-> raw_idx,
                               buffered |-> Len(segment_points),
                               points |-> [k \in DOMAIN segment_points |->
                                             segment_points[k].point],
                               last |-> point_idx = npoints - 1])
  /\ result' = Append(result,
                      process_segment(Last(segments'),
                                      IF ai_prompt THEN generate_segment_description(TRUE)
                                      ELSE NoneStr))
  /\ segment_number' = segment_number + 1
  /\ segment_start_distance' = cumulative_distance
  /\ segment_distance' = 0
  /\ segment_points' = <<>>
  /\ segment_grades' = <<>>
  /\ segment_elevation_gain' = 0
  /\ segment_elevation_loss' = 0
  /\ previous_point' = point
  /\ previous_duration' = point.elevation
  /\ point_idx' = point_idx + 1
  /\ pc' = "points"
  /\ UNCHANGED <<libraryVars, inputVars, raw_idx, timed, npoints, points, read_points, point,
                 cumulative_distance, raised, outVars, analyzerVars>>

\* the segment is complete: its dict is appended and the segment data is reset
CloseSegment ==
  /\ pc = "check"
  /\ SegmentComplete(segment_distance, segment_length, point_idx, npoints, Len(segment_points))
  /\ LET stats == calculate_segment_statistics(segment_points, segment_grades)
     IN  segments' = Append(segments,
                            [number |-> segment_number,
                             distance |-> segment_distance,
                             elevation_gain |-> segment_elevation_gain,
                             elevation_loss |-> segment_elevation_loss,
                             avg_grade |-> stats.avg_grade,
                             max_grade |-> stats.max_grade,
                             min_grade |-> stats.min_grade,
                             min_elevation |-> stats.min_elevation,
                             max_elevation |-> stats.max_elevation,
                             start_distance |-> segment_start_distance,
                             start_point |-> segment_points[1].point,
                             end_point |-> Last(segment_points).point])
  /\ closed' = Append(closed, [raw |-> raw_idx,
                               buffered |-> Len(segment_points),
                               points |-> [k \in DOMAIN segment_points |->
                                             segment_points[k].point],
                               last |-> point_idx = npoints - 1])
  /\ segment_number' = segment_number + 1
  /\ segment_start_distance' = cumulative_distance
  /\ segment_distance' = 0
  /\ segment_points' = <<>>
  /\ segment_grades' = <<>>
  /\ segment_elevation_gain' = 0
  /\ segment_elevation_loss' = 0
  /\ previous_point' = point
  /\ previous_duration' = point.elevation
  /\ point_idx' = point_idx + 1
  /\ pc' = "points"
  /\ UNCHANGED <<libraryVars, inputVars, raw_idx, timed, npoints, points, read_points, point,
                 cumulative_distance, result, raised, outVars, analyzerVars>>

\* the segment is not complete: the buffer is kept
KeepSegment ==
  /\ pc = "check"
  /\ ~SegmentComplete(segment_distance, segment_length, point_idx, npoints, Len(segment_points))
  /\ previous_point' = point
  /\ previous_duration' = point.elevation
  /\ point_idx' = point_idx + 1
  /\ pc' = "points"
  /\ UNCHANGED <<libraryVars, inputVars, raw_idx, timed, npoints, points, read_points, point,
                 cumulative_distance, segment_start_distance, segment_distance,
                 segment_points, segment_grades, segment_elevation_gain,
                 segment_elevation_loss, segment_number, segments, closed,
                 result, raised, outVars, analyzerVars>>

\* the points of the raw track segment are exhausted
EndPoints ==
  /\ pc = "points" /\ point_idx = npoints
  /\ pc' = "tracks"
  /\ UNCHANGED <<libraryVars, inputVars, loopVars, result, raised, outVars, analyzerVars>>

\* the tracks are exhausted: the return statement starts
EndTracks ==
  /\ pc = "tracks"
  /\ pc' = "process"
  /\ UNCHANGED <<libraryVars, inputVars, loopVars, result, raised, outVars, analyzerVars>>

\* __process_segment for the next dict of the list comprehension
ProcessSegment ==
  /\ pc = "process" /\ Len(result) < Len(segments)
  /\ \E request_ok \in (IF ai_prompt THEN BOOLEAN ELSE {TRUE}) :
       /\ result' = Append(result,
                           process_segment(segments[Len(result) + 1],
                                           IF ai_prompt
                                           THEN generate_segment_description(request_ok)
                                           ELSE NoneStr))
       /\ stdout' = IF request_ok THEN stdout
                     ELSE Append(stdout, "Error Generating description")
  /\ UNCHANGED <<libraryVars, inputVars, pc, loopVars, raised, stderr, exit_code, csv_columns, csv_rows, analyzerVars>>

Return ==
  /\ pc = "process" /\ Len(result) = Len(segments)
  /\ pc' = "returned"
  /\ UNCHANGED <<libraryVars, inputVars, loopVars, result, raised, outVars, analyzerVars>>

\* ------------------------------------------------------------- src/main.py
Columns == <<"Segment", "Start Elevation", "End Elevation", "Min Elevation", "Max Elevation",
             "Distance(Km)", "Start Km", "End Km", "Elevation Gain", "Elevation Loss",
             "Avg Grade", "Max grade", "Min grade", "Start time", "End time", "Duration">>

\* list.remove(name), guarded by "name in columns"
Remove(columns, name) == SelectSeq(columns, LAMBDA c : c # name)

\* the row of one segment
Row(segment, with_description) ==
  <<segment.number, segment.start_elevation, segment.end_elevation,
    segment.min_elevation, segment.max_elevation, segment.distance,
    segment.start_distance, segment.end_distance, segment.elevation_gain,
    segment.elevation_loss, segment.avg_grade, segment.max_grade, segment.min_grade>>
  \o (IF segment.start_time # EmptyText THEN <<segment.start_time>> ELSE <<>>)
  \o (IF segment.end_time # EmptyText THEN <<segment.end_time>> ELSE <<>>)
  \o (IF segment.duration # EmptyText THEN <<segment.duration>> ELSE <<>>)
  \o (IF with_description THEN <<segment.description>> ELSE <<>>)

\* the header after the loop over the first n segments
RECURSIVE Header(_, _, _)
Header(segs, n, with_description) ==
  IF n = 0
  THEN Columns \o (IF with_description THEN <<"Description">> ELSE <<>>)
  ELSE LET before == Header(segs, n - 1, with_description)
           c1 == IF segs[n].start_time # EmptyText THEN before ELSE Remove(before, "Start time")
           c2 == IF segs[n].end_time # EmptyText THEN c1 ELSE Remove(c1, "End time")
       IN  IF segs[n].duration # EmptyText THEN c2 ELSE Remove(c2, "Duration")

\* write_on_csv of main.py after process_gpx returned: header, rows, message, True
MainWriteCsv ==
  /\ pc = "returned" /\ entry = "main"
  /\ csv_columns' = Header(result, Len(result), ai_prompt)
  /\ csv_rows' = [i \in DOMAIN result |-> Row(result[i], ai_prompt)]
  /\ stdout' = Append(stdout, "Successfully processed")
  /\ pc' = "written"
  /\ UNCHANGED <<libraryVars, inputVars, loopVars, result, raised, stderr, exit_code, analyzerVars>>

\* main() returns: the interpreter exits with status 0
MainExit ==
  /\ pc = "written" /\ entry = "main"
  /\ exit_code' = 0
  /\ pc' = "exit"
  /\ UNCHANGED <<libraryVars, inputVars, loopVars, result, raised, stdout, stderr, csv_columns,
                 csv_rows, analyzerVars>>

\* ----------------------------------------------------- src/gpx_analyzer.py
ROUTE_PROVIDERS == {"www.strava.com"}

\* __ROUTE_PROVIDERS.get(hostname) without a default: None for an unknown hostname
RouteProvider_NoDefault(hostname) ==
  IF hostname \in ROUTE_PROVIDERS THEN "Strava" ELSE NoneStr

\* __ROUTE_PROVIDERS.get(hostname, FileRouteGPXProvider), by provider_name
RouteProvider(hostname) ==
  IF hostname \in ROUTE_PROVIDERS THEN "Strava" ELSE "Local File"

\* get_gpx_data: the provider of the hostname, the local file provider by default,
\* retrieves the data of the URI (the file provider opens the URI as a path);
\* a GPXProviderError is printed to stderr and None is returned
AnalyzerGetData ==
  /\ pc = "main" /\ entry = "gpx_analyzer"
  /\ LET provider == RouteProvider(uri_host)
         retrieved == provider # NoneStr /\ source # "missing"
     IN  /\ provider_used' = provider
         /\ gpx_data' = IF ~retrieved THEN NoneStr
                        ELSE IF source = "ok" THEN "gpx" ELSE "garbage"
         /\ stderr' = IF retrieved THEN stderr ELSE Append(stderr, "GPXProviderError")
         /\ stdout' = IF provider = NoneStr THEN stdout
                      ELSE Append(stdout, "Retrieving GPX data")
  /\ pc' = "get_routes"
  /\ UNCHANGED <<libraryVars, inputVars, loopVars, result, raised, exit_code, csv_columns,
                 csv_rows, uri_host, routes>>

\* get_routes raises GPXError: write_on_csv prints it to stderr and returns False
AnalyzerGPXError ==
  /\ pc = "get_routes" /\ gpx_data # "gpx"
  /\ stderr' = Append(stderr, "GPXError")
  /\ pc' = "failed"
  /\ UNCHANGED <<libraryVars, inputVars, loopVars, result, raised, stdout, exit_code, csv_columns,
                 csv_rows, analyzerVars>>

\* get_routes returns one route for each raw track segment of the data
AnalyzerGetRoutes ==
  /\ pc = "get_routes" /\ gpx_data = "gpx"
  /\ \E n \in 0 .. MaxRawSegments : routes' = n
  /\ pc' = "routes"
  /\ UNCHANGED <<libraryVars, inputVars, loopVars, result, raised, outVars, uri_host, gpx_data,
                 provider_used>>

\* "if not routes": a message on stderr, False
AnalyzerNoRoutes ==
  /\ pc = "routes" /\ routes = 0
  /\ stderr' = Append(stderr, "No routes found")
  /\ pc' = "failed"
  /\ UNCHANGED <<libraryVars, inputVars, loopVars, result, raised, stdout, exit_code, csv_columns,
                 csv_rows, analyzerVars>>

AnalyzerColumns == <<"Segment", "Start Elevation", "End Elevation", "Min Elevation",
                     "Max Elevation", "Distance(Km)", "Start Km", "End Km", "Elevation Gain",
                     "Elevation Loss", "Avg Grade", "Min grade", "Max grade">>

\* the CSV is written, True
AnalyzerWriteCsv ==
  /\ pc = "routes" /\ routes > 0
  /\ csv_columns' = AnalyzerColumns
  /\ stdout' = Append(stdout, "Successfully processed")
  /\ pc' = "written"
  /\ UNCHANGED <<libraryVars, inputVars, loopVars, result, raised, stderr, exit_code, csv_rows,
                 analyzerVars>>

\* main(): "if not result": a message on stderr, sys.exit(1); exit status 0 otherwise
AnalyzerExit ==
  /\ pc \in {"failed", "written"} /\ entry = "gpx_analyzer"
  /\ exit_code' = IF pc = "failed" THEN 1 ELSE 0
  /\ stderr' = IF pc = "failed" THEN Append(stderr, "Failed to process GPX data") ELSE stderr
  /\ pc' = "exit"
  /\ UNCHANGED <<libraryVars, inputVars, loopVars, result, raised, stdout, csv_columns, csv_rows,
                 analyzerVars>>

\* ------------------------------------------------------------ specification
Next ==
  \/ MainCall \/ OpenParsed \/ OpenFailed \/ NextRawSegment \/ Skip \/ Accumulate
  \/ CloseSegment \/ KeepSegment \/ EndPoints \/ EndTracks \/ ProcessSegment \/ Return
  \/ MainWriteCsv \/ MainExit
  \/ AnalyzerGetData \/ AnalyzerGPXError \/ AnalyzerGetRoutes \/ AnalyzerNoRoutes
  \/ AnalyzerWriteCsv \/ AnalyzerExit

Spec == Init /\ [][Next]_vars

\* ------------------------------------- get_locations_elevations (src/provider.py)
MaxCalls == 2

\* the lists of locations of a call, each location given by its 'position'
LocationLists == {<<>>, <<1>>, <<2, 1>>}

\* what provider.get_points_elevations does: raise PointElevationError, return an
\* empty list, return one elevation for each location
Outcomes == {"raise", "empty", "data"}

\* sorted(locations, key=lambda lo: lo["position"])
SortByPosition(locs) == SortSeq(locs, LAMBDA a, b : a < b)

\* __setting_providers
setting_providers(chain, key) ==
  IF key THEN <<"GoogleElevationProvider">> \o chain ELSE chain

\* the list provider.get_points_elevations returns when it does not raise
points_elevations(provider, sorted, outcome) ==
  IF outcome = "data"
  THEN [i \in DOMAIN sorted |-> [position |-> sorted[i], provider |-> provider]]
  ELSE <<>>

\* a loop without the break
LoopBreaks_Never(returned) == FALSE

\* "if elevations: ... break"
LoopBreaks(returned) == returned # <<>>

\* os.environ changes between two calls
SetEnvironment ==
  /\ elevation_pc \in {"idle", "returned"}
  /\ api_key' = ~api_key
  /\ UNCHANGED <<programVars, googleVars, durationVars, gradientVars, providers, elevation_pc, calls,
                 locations, provider_idx, elevations, attempts>>

\* get_locations_elevations is called: elevations = [], __setting_providers()
GetLocationsElevations ==
  /\ elevation_pc \in {"idle", "returned"} /\ calls < MaxCalls
  /\ \E locs \in LocationLists : locations' = locs
  /\ calls' = calls + 1
  /\ elevations' = <<>>
  /\ providers' = setting_providers(providers, api_key)
  /\ provider_idx' = 1
  /\ attempts' = <<>>
  /\ elevation_pc' = "loop"
  /\ UNCHANGED <<programVars, googleVars, durationVars, gradientVars, api_key>>

\* one turn of the for loop: a PointElevationError is printed to stderr and the loop
\* goes on, a result is assigned and a non-empty one breaks the loop
TryProvider ==
  /\ elevation_pc = "loop" /\ provider_idx <= Len(providers)
  /\ \E outcome \in (IF locations = <<>> THEN Outcomes \ {"data"} ELSE Outcomes) :
       LET provider == providers[provider_idx]
           returned == points_elevations(provider, SortByPosition(locations), outcome)
       IN  /\ attempts' = Append(attempts, [provider |-> provider, outcome |-> outcome])
           /\ elevations' = IF outcome = "raise" THEN elevations ELSE returned
           /\ IF outcome # "raise" /\ LoopBreaks(returned)
              THEN elevation_pc' = "return" /\ provider_idx' = provider_idx
              ELSE elevation_pc' = "loop" /\ provider_idx' = provider_idx + 1
  /\ UNCHANGED <<programVars, googleVars, durationVars, gradientVars, api_key, providers, calls,
                 locations>>

\* "return elevations", after the break or after the last provider
ReturnElevations ==
  /\ \/ elevation_pc = "return"
     \/ elevation_pc = "loop" /\ provider_idx > Len(providers)
  /\ elevation_pc' = "returned"
  /\ UNCHANGED <<programVars, googleVars, durationVars, gradientVars, api_key, providers, calls,
                 locations, provider_idx, elevations, attempts>>

\* the program is not running
ProgramIdle ==
  /\ InitProgram
  /\ entry = "main" /\ source = "ok" /\ segment_length = 0 /\ ai_prompt = FALSE

NextElevation ==
  \/ SetEnvironment \/ GetLocationsElevations \/ TryProvider \/ ReturnElevations

InitElevationSpec ==
  ProgramIdle /\ InitElevation /\ InitDuration /\ InitGradient /\ InitGoogle

SpecElevation == InitElevationSpec /\ [][NextElevation]_vars

\* ------------------------------------ __calculate_segment_duration (src/gpx.py)
\* the timestamps of the two points, in seconds; NoValue for a point without <time>
DurationTimes == {0, 1, 59, 60, 3599, 3600, 3661, 86399, 90000, 360000}

\* __calculate_segment_duration is called with two points
InitDurationCall ==
  /\ start_time \in DurationTimes \cup {NoValue}
  /\ end_time \in DurationTimes \cup {NoValue}
  /\ duration = NoneStr
  /\ duration_pc = "call"

CalculateSegmentDuration ==
  /\ duration_pc = "call"
  /\ duration' = calculate_segment_duration([time |-> start_time], [time |-> end_time])
  /\ duration_pc' = "returned"
  /\ UNCHANGED <<programVars, googleVars, elevationVars, gradientVars, start_time, end_time>>

NextDuration == CalculateSegmentDuration

InitDurationSpec ==
  ProgramIdle /\ InitElevation /\ InitDurationCall /\ InitGradient /\ InitGoogle

SpecDuration == InitDurationSpec /\ [][NextDuration]_vars

\* ---------------------------------------------- calculate_gradient (src/utils.py)
\* distances in thousandths of a kilometre, 0 included
GradientDistances == {0, 4, 8, 16, 40, 1000, 2000}

\* elevation differences in thousandths of a metre, such that the gradient over
\* each distance is a whole number of thousandths of a percent
GradientElevationDiffs == {-100000, -50000, -40, -20, 0, 20, 40, 50000, 100000}

\* calculate_gradient is called
InitGradientCall ==
  /\ gradient_distance \in GradientDistances
  /\ gradient_elevation_diff \in GradientElevationDiffs
  /\ gradient = 0
  /\ gradient_pc = "call"

CalculateGradient ==
  /\ gradient_pc = "call"
  /\ gradient' = calculate_gradient(gradient_distance, gradient_elevation_diff)
  /\ gradient_pc' = "returned"
  /\ UNCHANGED <<programVars, googleVars, elevationVars, durationVars, gradient_distance,
                 gradient_elevation_diff>>

NextGradient == CalculateGradient

InitGradientSpec ==
  ProgramIdle /\ InitElevation /\ InitDuration /\ InitGradientCall /\ InitGoogle

SpecGradient == InitGradientSpec /\ [][NextGradient]_vars

\* ------------------- GoogleElevationProvider.get_points_elevations (src/provider.py)
max_location_per_request == 200

\* the numbers of locations of a call: below, at and above the multiples of
\* max_location_per_request
LocationCounts == {0, 1, 199, 200, 201, 399, 400, 401, 600}

\* locations[first : last], positions counted from 0, the end clipped as a slice is
Slice(locs, first, last) ==
  SubSeq(locs, first + 1, IF last < Len(locs) THEN last ELSE Len(locs))

\* __get_locations_per_requests
get_locations_per_requests(locs) ==
  LET pages == Len(locs) \div max_location_per_request + 1
  IN  [page \in 1 .. pages |->
         Slice(locs, (page - 1) * max_location_per_request,
               page * max_location_per_request)]

\* a call that returns what it has collected, whatever failed
points_result_Partial(results, raised_exception) ==
  [raised |-> NoneStr, value |-> results]

\* "if exception: raise exception", "return location_results"
points_result(results, raised_exception) ==
  IF raised_exception # NoneStr
  THEN [raised |-> raised_exception, value |-> NoneStr]
  ELSE [raised |-> NoneStr, value |-> results]

\* get_points_elevations is called with locations numbered from 1
InitGoogleCall ==
  /\ google_locations \in {[i \in 1 .. n |-> i] : n \in LocationCounts}
  /\ locations_per_request = <<>>
  /\ request_idx = 0
  /\ responses = <<>>
  /\ location_results = <<>>
  /\ exception = NoneStr
  /\ google_returned = NoneStr
  /\ google_pc = "call"

\* the batches are made, location_results = [], exception = None
GoogleSplit ==
  /\ google_pc = "call"
  /\ locations_per_request' = get_locations_per_requests(google_locations)
  /\ location_results' = <<>>
  /\ exception' = NoneStr
  /\ request_idx' = 1
  /\ google_pc' = "loop"
  /\ UNCHANGED <<programVars, elevationVars, durationVars, gradientVars, google_locations,
                 responses, google_returned>>

\* __get_locations_elevations for the next batch: one request, whose reply holds an
\* elevation for each location of the batch, or PointElevationError, which is kept
GoogleRequest ==
  /\ google_pc = "loop" /\ request_idx <= Len(locations_per_request)
  /\ \E ok \in BOOLEAN :
       /\ responses' = Append(responses, ok)
       /\ location_results' = IF ok
                               THEN location_results \o locations_per_request[request_idx]
                               ELSE location_results
       /\ exception' = IF ok THEN exception ELSE "PointElevationError"
  /\ request_idx' = request_idx + 1
  /\ UNCHANGED <<programVars, elevationVars, durationVars, gradientVars, google_locations,
                 locations_per_request, google_returned, google_pc>>

\* after the loop: the kept exception is raised, or the results are returned
GoogleReturn ==
  /\ google_pc = "loop" /\ request_idx > Len(locations_per_request)
  /\ google_returned' = points_result(location_results, exception)
  /\ google_pc' = "returned"
  /\ UNCHANGED <<programVars, elevationVars, durationVars, gradientVars, google_locations,
                 locations_per_request, request_idx, responses, location_results,
                 exception>>

NextGoogle == GoogleSplit \/ GoogleRequest \/ GoogleReturn

InitGoogleSpec ==
  ProgramIdle /\ InitElevation /\ InitDuration /\ InitGradient /\ InitGoogleCall

SpecGoogle == InitGoogleSpec /\ [][NextGoogle]_vars

\* ------------------------------------------------------------------ claims
\* the segments emitted from the raw track segment that is being read
Current == {i \in DOMAIN segments : closed[i].raw = raw_idx}

\* C1: after a point was added to the buffer, a segment is emitted exactly when the
\* running distance has reached segment_length, or the point is the last one of the
\* raw track segment and the buffer holds at least 2 points; otherwise nothing is
\* emitted and the buffer is kept, one point longer than before the point.
C1_CloseIffRule ==
  [][ /\ (pc = "points" /\ pc' = "check")
         => /\ Len(segment_points') = Len(segment_points) + 1
            /\ Last(segment_points').point = point'
            /\ segments' = segments
      /\ pc = "check"
         => LET rule == \/ segment_distance >= segment_length
                        \/ point_idx = npoints - 1 /\ Len(segment_points) >= 2
            IN  /\ rule => /\ Len(segments') = Len(segments) + 1
                           /\ Last(segments').end_point = point
                           /\ segment_points' = <<>>
                /\ ~rule => /\ segments' = segments
                            /\ segment_points' = segment_points ]_vars

\* C1 witness: a segment closed by the last-point rule alone, after an earlier point
\* that was neither far enough nor the last one had left the buffer open
C1_Witness ==
  /\ pc = "tracks"
  /\ \E i \in Current :
       /\ closed[i].last /\ segments[i].distance < segment_length
       /\ closed[i].buffered >= 2

\* C2: for a monotonic elevation profile, elevation_gain - elevation_loss of every
\* emitted segment is the elevation of its last buffered point minus the elevation
\* of its first buffered point.
Monotonic(ps) ==
  \/ \A j \in 2 .. Len(ps) : ps[j - 1].elevation <= ps[j].elevation
  \/ \A j \in 2 .. Len(ps) : ps[j - 1].elevation >= ps[j].elevation

C2_GainMinusLoss ==
  (segment_length > 0 /\ Monotonic(points) /\ \A j \in DOMAIN points : points[j].elevation # 0) =>
    \A i \in Current :
      segments[i].elevation_gain - segments[i].elevation_loss
        = segments[i].end_point.elevation - segments[i].start_point.elevation

\* C3: on a track of equally spaced points (spacing d) with segment_length = k*d,
\* every segment closes with exactly k buffered points, unless it is closed early
\* by the last-point rule.
EqualSpacing(ps, d) ==
  /\ Len(ps) >= 2
  /\ \A j \in 2 .. Len(ps) : ps[j].latitude - ps[j - 1].latitude = d

ClosedEarly(i) == closed[i].last /\ segments[i].distance < segment_length

C3_ExactlyK ==
  \A d \in Hops, k \in 1 .. MaxPoints :
    (EqualSpacing(points, d) /\ segment_length = k * d) =>
      \A i \in Current : closed[i].buffered = k \/ ClosedEarly(i)

\* C3 as amended: the first segment of a raw track segment closes with k + 1
\* buffered points (k hops), every later one with k, unless closed early by the
\* last-point rule.
C3_FirstTakesOneMore ==
  \A d \in Hops, k \in 1 .. MaxPoints :
    (EqualSpacing(points, d) /\ segment_length = k * d) =>
      \A i \in Current :
        \/ closed[i].buffered = (IF segments[i].number = 1 THEN k + 1 ELSE k)
        \/ /\ ClosedEarly(i)
           /\ closed[i].buffered <= (IF segments[i].number = 1 THEN k ELSE k - 1)

\* C3 witness: an equally spaced track whose first segment took k + 1 points and
\* whose second segment took k, both closed by distance
C3_Witness ==
  \E d \in Hops, k \in 1 .. MaxPoints :
    /\ EqualSpacing(points, d) /\ segment_length = k * d
    /\ \E i, j \in Current :
         /\ segments[i].number = 1 /\ closed[i].buffered = k + 1 /\ ~closed[i].last
         /\ segments[j].number = 2 /\ closed[j].buffered = k /\ ~ClosedEarly(j)

\* C4: a single point buffered after the last boundary when the raw track segment
\* ends is not emitted as a segment.
C4_TrailingPointDropped ==
  segment_length > 0 =>
    \A i \in DOMAIN segments :
      ~(closed[i].last /\ closed[i].buffered = 1 /\ segments[i].number >= 2)

\* C5: when the source cannot be opened or parsed, process_gpx leaves with an
\* error that reaches the caller.
C5_SourceErrorPropagates ==
  (entry = "main" /\ pc \in {"returned", "written", "exit"} /\ source # "ok") => raised

\* C6: a command line program exits with 0 only when the source was read and at
\* least one segment or route was produced; otherwise it writes to stderr, exits
\* with a non-zero status and reports no success.
Produced == IF entry = "main" THEN Len(result) ELSE IF routes = NoValue THEN 0 ELSE routes

GoodRun ==
  /\ source = "ok"
  /\ Produced >= 1

C6_ExitCodes ==
  pc = "exit" =>
    /\ exit_code = 0 => GoodRun
    /\ ~GoodRun => /\ exit_code # 0
                   /\ stderr # <<>>
                   /\ \A m \in DOMAIN stdout : stdout[m] # "Successfully processed"

\* C7: within one raw track segment the end_distance of a segment is the
\* start_distance of the next one and the first start_distance is 0; before the
\* rounding of the record, start_distance is the sum of the distances of the
\* segments emitted before it.
FirstOfRaw(i) == i = 1 \/ closed[i - 1].raw # closed[i].raw

Earlier(i) == {j \in 1 .. i - 1 : closed[j].raw = closed[i].raw}

RECURSIVE DistanceSum(_)
DistanceSum(S) ==
  IF S = {} THEN 0
  ELSE LET j == CHOOSE x \in S : TRUE IN segments[j].distance + DistanceSum(S \ {j})

C8_StoredSum ==
  \A i \in DOMAIN result :
    result[i].end_distance = result[i].start_distance + result[i].distance

\* C8 as amended: end_distance is the sum of the unrounded start_distance and
\* distance, rounded to 2 decimals; on the stored fields it is within 0.01 of
\* start_distance + distance.
C8_RoundedSum ==
  \A i \in DOMAIN result :
    LET unrounded == segments[i].start_distance + segments[i].distance
    IN  /\ 10 * result[i].end_distance - 5 <= unrounded
        /\ unrounded <= 10 * result[i].end_distance + 5
        /\ Abs(result[i].end_distance - (result[i].start_distance + result[i].distance)) <= 1

C8_Witness ==
  \E i \in DOMAIN result :
    result[i].end_distance # result[i].start_distance + result[i].distance

\* C9: the running elevation_gain and elevation_loss are never negative; a pair of
\* points with elevation difference d adds d to the gain when d > 0, -d to the loss
\* when d < 0, and changes nothing else.
C9_GainAndLoss ==
  /\ [](/\ segment_elevation_gain >= 0
        /\ segment_elevation_loss >= 0
        /\ \A i \in DOMAIN segments :
             segments[i].elevation_gain >= 0 /\ segments[i].elevation_loss >= 0)
  /\ [][(pc = "points" /\ pc' = "check" /\ previous_point # NoPoint)
          => LET d == point'.elevation - previous_point.elevation
             IN  /\ segment_elevation_gain' =
                      segment_elevation_gain + (IF d > 0 THEN d ELSE 0)
                 /\ segment_elevation_loss' =
                      segment_elevation_loss + (IF d < 0 THEN -d ELSE 0)]_vars

C9_Witness ==
  /\ pc = "check"
  /\ segment_elevation_gain > 0 /\ segment_elevation_loss > 0
  /\ point.elevation < previous_point.elevation

\* C10: with a positive segment_length, a raw track segment with fewer than 2
\* usable points emits no segment, and process_gpx returns without an error (an
\* empty list when no segment was emitted at all).
Usable(ps) == {j \in DOMAIN ps : \E m \in 1 .. j : ps[m].elevation # 0}

C10_FewPointsNoSegment ==
  /\ (segment_length > 0 /\ Cardinality(Usable(points)) < 2) => Current = {}
  /\ (entry = "main" /\ source = "ok" /\ pc = "returned")
       => /\ ~raised
          /\ \A m \in DOMAIN stdout : stdout[m] # "Error processing GPX file"
          /\ segments = <<>> => result = <<>>

C10_Witness ==
  /\ pc = "returned" /\ source = "ok" /\ segment_length > 0
  /\ Len(points) >= 2 /\ Cardinality(Usable(points)) = 1
  /\ result = <<>>

\* C11: the segments emitted from one raw track segment are numbered 1, 2, 3, ...
\* in emission order without gap or repeat, the numbering restarts at 1 for the
\* next raw track segment, and a trailing fragment that is dropped takes no
\* number: the number a segment would get next is always one more than the
\* count of segments already emitted from the raw track segment being read.
C11_Numbering ==
  /\ \A i \in DOMAIN segments : segments[i].number = Cardinality(Earlier(i)) + 1
  /\ \A i \in DOMAIN result : result[i].number = segments[i].number
  /\ pc \in {"points", "check"} => segment_number = Cardinality(Current) + 1

\* segments 1 and 2 of the first raw track segment and segment 1 of the second
\* raw track segment are returned
C11_Witness ==
  /\ pc = "returned" /\ Len(result) = 3
  /\ closed[1].raw = 1 /\ closed[2].raw = 1 /\ closed[3].raw = 2
  /\ result[1].number = 1 /\ result[2].number = 2 /\ result[3].number = 1

C20_EachProviderOnce ==
  \A i, j \in DOMAIN providers : providers[i] = providers[j] => i = j

\* C13: when the description request of a segment fails, nothing leaves
\* generate_segment_description and process_gpx goes on: the failure is printed,
\* the description of that segment is the placeholder "-", its statistics are what
\* they are without any description, and every segment is still returned.
Failures(texts) == Len(SelectSeq(texts, LAMBDA t : t = "Error Generating description"))

C13_DescriptionFailureContained ==
  ai_prompt =>
    /\ ~raised
    /\ \A i \in DOMAIN result :
          /\ result[i].description \in {"text", "-"}
          /\ [result[i] EXCEPT !.description = NoneStr]
               = process_segment(segments[i], NoneStr)
    /\ Cardinality({i \in DOMAIN result : result[i].description = "-"}) = Failures(stdout)
    /\ pc = "returned" => Len(result) = Len(segments)

\* two segments are returned, the description request of the first one failed
\* and that of the second one succeeded
C13_Witness ==
  /\ pc = "returned" /\ ai_prompt /\ Len(result) = 2
  /\ result[1].description = "-" /\ result[2].description = "text"
  /\ result[1].distance > 0 /\ Failures(stdout) = 1

UnknownHost ==
  /\ entry = "gpx_analyzer" /\ pc # "main"
  /\ uri_host # "" /\ uri_host \notin ROUTE_PROVIDERS

ProviderErrorPrinted == \E m \in DOMAIN stderr : stderr[m] = "GPXProviderError"

\* C15 as stated: for such a URI get_gpx_data fails with a provider error, no
\* provider is used to retrieve data and no GPX data is returned.
C15_UnknownHostFails ==
  UnknownHost =>
    /\ provider_used = NoneStr
    /\ gpx_data = NoneStr
    /\ ProviderErrorPrinted

\* C15 amended: for such a URI get_gpx_data uses the local file provider, which
\* opens the URI as a path; when the file cannot be opened the provider error is
\* printed and None is returned, otherwise the content of the file is returned.
C15_UnknownHostUsesFile ==
  UnknownHost =>
    /\ provider_used = "Local File"
    /\ source = "missing" => gpx_data = NoneStr /\ ProviderErrorPrinted
    /\ source # "missing" => gpx_data # NoneStr /\ ~ProviderErrorPrinted

\* the file provider was used for a URI of an unknown host and found no file
C15_Witness ==
  /\ UnknownHost /\ pc = "get_routes" /\ source = "missing"
  /\ provider_used = "Local File" /\ gpx_data = NoneStr /\ ProviderErrorPrinted

\* the fields of a text, split at ":"
RECURSIVE Split(_)
Split(text) ==
  IF text = <<>> THEN << <<>> >>
  ELSE LET rest == Split(Tail(text))
       IN  IF Head(text) = ":" THEN << <<>> >> \o rest
           ELSE << <<Head(text)>> \o Head(rest) >> \o Tail(rest)

IsDigits(text) ==
  \A k \in DOMAIN text : \E d \in 0 .. 9 : DigitChar(d) = text[k]

\* the number a sequence of digits reads as
RECURSIVE Number(_)
Number(text) ==
  IF text = <<>> THEN 0
  ELSE Number(SubSeq(text, 1, Len(text) - 1)) * 10
       + (CHOOSE d \in 0 .. 9 : DigitChar(d) = Last(text))

\* the text is HH:MM:SS for the given number of seconds: three fields of at least
\* two digits, MM and SS within 0..59, hours not limited to 23
IsHMS(text, elapsed) ==
  LET fields == Split(text)
  IN  /\ Len(fields) = 3
      /\ \A k \in 1 .. 3 : Len(fields[k]) >= 2 /\ IsDigits(fields[k])
      /\ Number(fields[2]) \in 0 .. 59
      /\ Number(fields[3]) \in 0 .. 59
      /\ Number(fields[1]) * 3600 + Number(fields[2]) * 60 + Number(fields[3]) = elapsed

Sign(n) == IF n > 0 THEN 1 ELSE IF n < 0 THEN -1 ELSE 0

\* C17: calculate_gradient returns 0 for the distance 0; for a positive distance
\* it returns elevation_diff / (distance * 1000) * 100, a percentage with the
\* sign of elevation_diff: 5 for 100 m over 2 km, -5 for -50 m over 1 km.
C17_Gradient ==
  gradient_pc = "returned" =>
    /\ gradient_distance = 0 => gradient = 0
    /\ gradient_distance > 0 =>
          /\ gradient * gradient_distance = gradient_elevation_diff * 100
          /\ Sign(gradient) = Sign(gradient_elevation_diff)
    /\ gradient_distance = 2000 /\ gradient_elevation_diff = 100000 => gradient = 5000
    /\ gradient_distance = 1000 /\ gradient_elevation_diff = -50000 => gradient = -5000

\* -50 m over 1 km gave -5 percent
C17_Witness ==
  /\ gradient_pc = "returned"
  /\ gradient_distance = 1000 /\ gradient_elevation_diff = -50000
  /\ gradient = -5000

\* the distance, the gain and the loss along a sequence of points, the first
\* point contributing nothing
RECURSIVE Along(_)
Along(ps) ==
  IF Len(ps) < 2 THEN [distance |-> 0, gain |-> 0, loss |-> 0]
  ELSE LET before == Along(SubSeq(ps, 1, Len(ps) - 1))
           a == ps[Len(ps) - 1]
           b == ps[Len(ps)]
           climb == b.elevation - a.elevation
       IN  [distance |-> before.distance
                          + haversine(a.latitude, a.longitude, b.latitude, b.longitude),
            gain |-> before.gain + (IF climb > 0 THEN climb ELSE 0),
            loss |-> before.loss + (IF climb < 0 THEN -climb ELSE 0)]

\* C18: the distance of every emitted segment is the sum of the distances between
\* the consecutive points of its own buffer, the first buffered point contributing
\* 0 for later segments too: the hop from the closing point of the previous
\* segment is in neither the distance nor the gain nor the loss of the new one.
C18_OwnBufferOnly ==
  segment_length > 0 =>
    \A i \in DOMAIN segments :
      LET own == Along(closed[i].points)
      IN  /\ segments[i].distance = own.distance
          /\ segments[i].elevation_gain = own.gain
          /\ segments[i].elevation_loss = own.loss

\* C19: a point with elevation 0 is skipped only while no point of the raw track
\* segment has been accepted; one that arrives after a predecessor is processed
\* at the elevation delta 0: elevation_gain and elevation_loss stay as they are
\* and the grade it contributes is 0.
C19_ZeroElevationDeltaZero ==
  [][/\ (pc = "points" /\ pc' = "points" /\ points' # points) =>
          /\ Last(points').elevation = 0
          /\ previous_point = NoPoint
     /\ (pc = "points" /\ pc' = "check" /\ point'.elevation = 0
            /\ previous_point # NoPoint) =>
          /\ segment_elevation_gain' = segment_elevation_gain
          /\ segment_elevation_loss' = segment_elevation_loss
          /\ Last(segment_grades') = 0]_vars

\* C21: in the CSV that write_on_csv of main.py writes, every data row has as
\* many fields as the header row, whatever the list of segments is: also when
\* some segments have a start time, an end time or a duration and others lack
\* them, with an ai_prompt or without one.
C21_RowsMatchHeader ==
  (entry = "main" /\ pc \in {"written", "exit"}) =>
    \A i \in DOMAIN csv_rows : Len(csv_rows[i]) = Len(csv_columns)

\* the least number of batches of at most m locations that hold n locations
Ceil(n, m) == (n + m - 1) \div m

\* C22: a list of n >= 1 locations is split into exactly
\* ceil(n / max_location_per_request) consecutive batches, so that no request is
\* issued for an empty batch, also when n is a multiple of
\* max_location_per_request.
C22_NoEmptyBatch ==
  (google_pc # "call" /\ Len(google_locations) >= 1) =>
    /\ Len(locations_per_request) = Ceil(Len(google_locations), max_location_per_request)
    /\ \A k \in DOMAIN responses : locations_per_request[k] # <<>>

\* the batches put one after the other
RECURSIVE Flatten(_)
Flatten(batches) ==
  IF batches = <<>> THEN <<>>
  ELSE Flatten(SubSeq(batches, 1, Len(batches) - 1)) \o Last(batches)

\* C23: get_points_elevations of the Google provider is all or nothing: a failed
\* request does not end the loop, every batch is attempted; when the request of
\* any batch failed the call raises PointElevationError and returns nothing of
\* what the other batches gave; it returns a list only when every request
\* succeeded, and the list is the results of the batches in batch order.
C23_AllOrNothing ==
  /\ google_pc = "loop" => request_idx = Len(responses) + 1
  /\ google_pc = "returned" =>
        /\ Len(responses) = Len(locations_per_request)
        /\ IF \E k \in DOMAIN responses : ~responses[k]
           THEN /\ google_returned.raised = "PointElevationError"
                /\ google_returned.value = NoneStr
           ELSE /\ google_returned.raised = NoneStr
                /\ google_returned.value = Flatten(locations_per_request)
                /\ google_returned.value = google_locations

\* 201 locations: the request of the first batch failed, that of the second one
\* succeeded, and the call raised
C23_Witness ==
  /\ google_pc = "returned" /\ Len(google_locations) = 201
  /\ responses = <<FALSE, TRUE>>
  /\ location_results # <<>>
  /\ google_returned.raised = "PointElevationError"

====
